---------------------------- MODULE Spec2Model ----------------------------
(***************************************************************************)
(* natsrouter v2: a rank-ordered subject router.  Router state, the        *)
(* pattern translator, the per-rank trie and the parameter pool, with the  *)
(* handlers launched by ServeNATS running as independent tasks.            *)
(*                                                                         *)
(* Strings are sequences of one-character strings, so that translation,    *)
(* prefix matching and parameter capture work on characters as the Go      *)
(* code does.                                                              *)
(***************************************************************************)
EXTENDS Integers, Sequences, FiniteSets, TLC

(***************************************************************************)
(* Bounds of the model.                                                    *)
(***************************************************************************)
MaxRegs == 2        \* Router.Handle calls in one behaviour
MaxDispatch == 2    \* ServeNATS / ServeNATSWithPayload calls in one behaviour
MaxBufs == 2        \* parameter buffers ever allocated by paramsPool.New

(***************************************************************************)
(* Program constants.                                                      *)
(***************************************************************************)
MaxRank == 255          \* router.go:147  rank > 255 panics
Uint16 == 65536         \* router.go:82   maxParams is a uint16

(***************************************************************************)
(* Strings.                                                                *)
(***************************************************************************)
wUser == <<"u", "s", "e", "r">>
wGopher == <<"g", "o", "p", "h", "e", "r">>
wStar == <<"s", "t", "a", "r">>
wOk == <<"o", "k">>

HasPrefix(s, pre) ==
    /\ Len(pre) <= Len(s)
    /\ SubSeq(s, 1, Len(pre)) = pre

HasSuffix(s, suf) ==
    /\ Len(suf) <= Len(s)
    /\ SubSeq(s, Len(s) - Len(suf) + 1, Len(s)) = suf

Tail0(s, n) == SubSeq(s, n + 1, Len(s))     \* s[n:] in Go

Digits == <<"0", "1", "2", "3", "4", "5", "6", "7", "8", "9">>

RECURSIVE Itoa(_)
\* strconv.Itoa / fmt.Sprintf("%d") for n >= 0
Itoa(n) ==
    IF n < 10 THEN <<Digits[n + 1]>>
    ELSE Itoa(n \div 10) \o <<Digits[(n % 10) + 1]>>

(***************************************************************************)
(* Pattern translator.                                                     *)
(***************************************************************************)
RECURSIVE ReplaceTokens(_, _)
\* reNATSPathToken.ReplaceAllStringFunc: every non-overlapping ".*", left to
\* right, becomes ".:p<i>" with i counting from 1 within the call
ReplaceTokens(path, i) ==
    IF path = <<>> THEN <<>>
    ELSE IF HasPrefix(path, <<".", "*">>)
         THEN <<".", ":", "p">> \o Itoa(i) \o ReplaceTokens(Tail0(path, 2), i + 1)
         ELSE <<Head(path)>> \o ReplaceTokens(Tail(path), i)

\* a mutant of ReplaceCatchAll: the expression never matches
ReplaceCatchAllKeep(path) == path

\* reNATSPathCatchAll.ReplaceAllString(path, "$1.*>"): a final ".>" becomes ".*>"
ReplaceCatchAll(path) ==
    IF HasSuffix(path, <<".", ">">>)
    THEN SubSeq(path, 1, Len(path) - 2) \o <<".", "*", ">">>
    ELSE path

\* a mutant of fromNatsPath: the token counter starts at 0
fromNatsPathZero(path) == ReplaceCatchAll(ReplaceTokens(path, 0))

fromNatsPath(path) == ReplaceCatchAll(ReplaceTokens(path, 1))

(***************************************************************************)
(* Params.                                                                 *)
(***************************************************************************)
Param(k, v) == [Key |-> k, Value |-> v]

MatchedRoutePathParam ==
    <<"$", "m", "a", "t", "c", "h", "e", "d", "R", "o", "u", "t", "e", "P", "a", "t", "h">>

\* a mutant of ByName: the loop does not return at the first match
ByNameLast(ps, name) ==
    LET hits == {i \in DOMAIN ps : ps[i].Key = name} IN
    IF hits = {} THEN <<>>
    ELSE ps[CHOOSE i \in hits : \A j \in hits : j <= i].Value

RECURSIVE ByName(_, _)
ByName(ps, name) ==
    IF ps = <<>> THEN <<>>
    ELSE IF Head(ps).Key = name THEN Head(ps).Value
    ELSE ByName(Tail(ps), name)

(***************************************************************************)
(* Radix trie (tree.go is not part of the sources at hand; modelled from   *)
(* the design document, section 4.2).  A root is the set of the routes     *)
(* inserted so far; the nodes of the compressed tree are the prefixes at   *)
(* which routes end or diverge, and a walk never backtracks.               *)
(***************************************************************************)
\* a stored handler: the registered function h (0 is nil), wrapped by
\* saveMatchedRoutePath when saved is TRUE (the wrapper keeps the route path)
HandleOf(h, saved, path) == [h |-> h, saved |-> saved, path |-> path]
NilHandle == HandleOf(0, FALSE, <<>>)

Route(path, handle) == [path |-> path, handle |-> handle]

RECURSIVE TokenLen(_)
\* number of characters before the next separator
TokenLen(s) ==
    IF s = <<>> \/ Head(s) = "." THEN 0 ELSE 1 + TokenLen(Tail(s))

\* a mutant of countParams: the catch-all token is not counted
countParamsNamed(path) == Cardinality({i \in 1..Len(path) : path[i] = ":"})

RECURSIVE countParams(_)
\* one per parametric or catch-all token: each starts with one ':' or '*'
countParams(path) ==
    IF path = <<>> THEN 0
    ELSE (IF Head(path) \in {":", "*"} THEN 1 ELSE 0) + countParams(Tail(path))

\* the wildcard token (marker and name) that starts at position i of path
WildToken(path, i) == SubSeq(path, i, i + TokenLen(Tail0(path, i)))

\* a catch-all must be the final token and follow a separator
Malformed(path) ==
    \E i \in 1..Len(path) :
        /\ path[i] = "*"
        /\ \/ i = 1
           \/ path[i - 1] # "."
           \/ i + TokenLen(Tail0(path, i)) < Len(path)
           \/ TokenLen(Tail0(path, i)) = 0

\* a mutant of NameConflict: differently named parameters are accepted
NameConflictNone(p, q) == FALSE

\* two routes that reach the same position with differently named parameters
NameConflict(p, q) ==
    \E i \in 1..Len(p) :
        /\ p[i] = ":"
        /\ HasPrefix(q, SubSeq(p, 1, i))
        /\ WildToken(p, i) # WildToken(q, i)

\* a catch-all shares its position (the separator it swallows) with nothing
CatchAllConflict(p, q) ==
    \E i \in 2..Len(p) :
        /\ p[i] = "*"
        /\ HasPrefix(q, SubSeq(p, 1, i - 1))

addRouteFails(root, path) ==
    \/ Malformed(path)
    \/ \E q \in root :
          \/ q.path = path
          \/ NameConflict(path, q.path)
          \/ NameConflict(q.path, path)
          \/ CatchAllConflict(path, q.path)
          \/ CatchAllConflict(q.path, path)

addRoute(root, path, handle) == root \cup {Route(path, handle)}

Through(root, pre) == {q \in root : HasPrefix(q.path, pre)}

NextChars(root, pre) ==
    {q.path[Len(pre) + 1] : q \in {x \in Through(root, pre) : Len(x.path) > Len(pre)}}

CatchAllAt(root, pre) == Through(root, pre \o <<".", "*">>)

HandleAt(root, pre) ==
    IF \E q \in root : q.path = pre
    THEN (CHOOSE q \in root : q.path = pre).handle
    ELSE NilHandle

StaticStep(root, pre, c) ==
    /\ c \notin {":", "*"}
    /\ c \in NextChars(root, pre)
    /\ ~(c = "." /\ CatchAllAt(root, pre) # {})

RECURSIVE Fragment(_, _)
\* the static node reached from prefix p: it extends while exactly one
\* literal continuation exists and no route ends
Fragment(root, p) ==
    IF \E q \in root : q.path = p THEN p
    ELSE LET nc == NextChars(root, p) IN
         IF Cardinality(nc) = 1 /\ StaticStep(root, p, CHOOSE d \in nc : TRUE)
         THEN Fragment(root, p \o <<CHOOSE d \in nc : TRUE>>)
         ELSE p

RECURSIVE Walk(_, _, _, _)
\* the lookup walk at node pre with the subject's remainder rest: static
\* child first, then the parametric child, then the catch-all child
Walk(root, pre, rest, caps) ==
    IF rest = <<>> THEN [handle |-> HandleAt(root, pre), caps |-> caps]
    ELSE
    LET node == Fragment(root, pre \o <<Head(rest)>>)
        frag == Tail0(node, Len(pre))
    IN
    IF StaticStep(root, pre, Head(rest)) /\ HasPrefix(rest, frag)
    THEN Walk(root, node, Tail0(rest, Len(frag)), caps)
    ELSE IF ":" \in NextChars(root, pre)
    THEN LET q == CHOOSE x \in Through(root, pre \o <<":">>) : TRUE
             tok == WildToken(q.path, Len(pre) + 1)
             n == TokenLen(rest)
         IN Walk(root, pre \o tok, Tail0(rest, n),
                 Append(caps, Param(Tail(tok), SubSeq(rest, 1, n))))
    ELSE IF CatchAllAt(root, pre) # {} /\ Head(rest) = "."
    THEN LET q == CHOOSE x \in CatchAllAt(root, pre) : TRUE
         IN [handle |-> q.handle,
             caps |-> Append(caps, Param(Tail0(q.path, Len(pre) + 2), rest))]
    ELSE [handle |-> NilHandle, caps |-> caps]

\* node.getValue without the buffer: the handler found (or NilHandle) and the
\* captured parameters in the order of the walk
getValue(root, path) == Walk(root, <<>>, path, <<>>)

(***************************************************************************)
(* Inputs.                                                                 *)
(***************************************************************************)
PatUserStarRest == wUser \o <<".", "*", ".", ">">>        \* user.*.>
PatUserRest == wUser \o <<".", ">">>                      \* user.>
PatUserGopher == wUser \o <<".">> \o wGopher              \* user.gopher
Patterns == <<PatUserStarRest, PatUserRest, PatUserGopher>>

SubLong == wUser \o <<".">> \o wGopher \o <<".">> \o wStar \o <<".">> \o wOk
SubShort == wUser \o <<".">> \o wGopher
Subjects == {SubLong, SubShort}
PayloadSubjects == {SubLong}

RankInputs == {0, 1, 2, MaxRank + 1}
\* the Handle calls that panic before anything is stored, as <<rank, function>>:
\* a rank outside 1..255 with a function, and nil as the function (the call of
\* TestRouterInvalidInput) with a rank inside and outside
InvalidCalls ==
    {<<0, 1>>, <<MaxRank + 1, 1>>, <<1, 0>>, <<0, 0>>}

NoPayload == "nil"
Payloads == {"payload"}

PanicValue == "boom"     \* what a handler that panics passes to panic()

\* every call site registers a function of its own: the one for (path, rank)

HandlerFor(path, rank) ==
    rank * 10 + (CHOOSE k \in DOMAIN Patterns : Patterns[k] = path)

(***************************************************************************)
(* Router state.                                                           *)
(***************************************************************************)
VARIABLES
    trees,                  \* rank -> root (set of routes); DOMAIN = ranks with a root
    maxParams,
    poolNew,                \* paramsPool.New is installed
    pool,                   \* paramsPool: ids of the buffers in the free list
    bufs,                   \* live *Params buffers: id -> [cap, len, arr]
    SaveMatchedRoutePath,
    globalAllowed,
    rankIndexList,
    initialized,
    PanicHandler,           \* a recovery callback is configured
    tasks,                  \* live goroutines: <<ServeNATS call, go statement>> -> task
    recovered,              \* calls of PanicHandler: [msg, rcv]
    crashed,                \* an unrecovered panic on a goroutine ended the process
    last,                   \* the last API call and what its caller saw
    nregs,                  \* Handle calls
    ndisp                   \* ServeNATS calls

routerVars == <<trees, maxParams, poolNew, pool, bufs, SaveMatchedRoutePath,
                globalAllowed, rankIndexList, initialized>>
vars == <<trees, maxParams, poolNew, pool, bufs, SaveMatchedRoutePath,
          globalAllowed, rankIndexList, initialized, PanicHandler,
          tasks, recovered, crashed, last, nregs, ndisp>>

\* what the caller of the last API call saw: the subject of a ServeNATS call,
\* the error returned (or the panic) and the number of go statements executed
Call(op, msg, err, launched) ==
    [op |-> op, msg |-> msg, err |-> err, launched |-> launched]

\* New(), followed by the assignments of the public fields the caller makes
\* before the router is used
Configured(panicHandler) ==
    /\ trees = <<>>
    /\ maxParams = 0
    /\ poolNew = FALSE
    /\ pool = {}
    /\ bufs = <<>>
    /\ SaveMatchedRoutePath \in BOOLEAN
    /\ globalAllowed = <<>>
    /\ rankIndexList = <<>>
    /\ initialized = FALSE
    /\ PanicHandler = panicHandler
    /\ tasks = <<>>
    /\ recovered = <<>>
    /\ crashed = FALSE
    /\ last = Call("New", <<>>, "nil", 0)
    /\ nregs = 0
    /\ ndisp = 0

\* PanicHandler is left nil
Init == Configured(FALSE)

\* PanicHandler is set
InitRecovery == Configured(TRUE)

(***************************************************************************)
(* Rank lists.                                                             *)
(***************************************************************************)
\* the orders in which "for rank := range r.trees" may visit the map
MapOrders(m) ==
    {s \in [1..Cardinality(DOMAIN m) -> DOMAIN m] :
        \A i, j \in DOMAIN s : i # j => s[i] # s[j]}

RECURSIVE InsertSorted(_, _)
InsertSorted(sorted, x) ==
    IF sorted = <<>> THEN <<x>>
    ELSE IF x < sorted[Len(sorted)]
         THEN Append(InsertSorted(SubSeq(sorted, 1, Len(sorted) - 1), x),
                     sorted[Len(sorted)])
         ELSE Append(sorted, x)

\* a mutant of InsertionSort: the list is left in the order of the map
InsertionSortNone(seq) == seq

RECURSIVE InsertionSort(_)
\* the insertion sort of allowed (and the contract of sort.Ints)
InsertionSort(seq) ==
    IF seq = <<>> THEN <<>>
    ELSE InsertSorted(InsertionSort(SubSeq(seq, 1, Len(seq) - 1)), seq[Len(seq)])

RECURSIVE Join(_)
\* strings.Join(strconv.Itoa of each, ", ")
Join(ranks) ==
    IF ranks = <<>> THEN <<>>
    ELSE IF Len(ranks) = 1 THEN Itoa(ranks[1])
    ELSE Itoa(ranks[1]) \o <<",", " ">> \o Join(Tail(ranks))

\* a mutant of allowedIn: the cached list is returned for rank 0 and the list
\* is computed for the other ranks
allowedInSwapped(tr, cached, order, path, reqRank) ==
    IF path = <<"*">> /\ reqRank = 0 THEN cached
    ELSE LET Keep(rank) ==
                 IF path = <<"*">> THEN TRUE
                 ELSE /\ rank # reqRank
                      /\ getValue(tr[rank], path).handle # NilHandle
         IN Join(InsertionSort(SelectSeq(order, Keep)))

\* a mutant of allowedIn: "if rank == reqRank { continue }" is missing
allowedInOwnRank(tr, cached, order, path, reqRank) ==
    IF path = <<"*">> /\ reqRank # 0 THEN cached
    ELSE LET Keep(rank) ==
                 IF path = <<"*">> THEN TRUE
                 ELSE getValue(tr[rank], path).handle # NilHandle
         IN Join(InsertionSort(SelectSeq(order, Keep)))

\* Router.allowed over the map tr visited in the given order
allowedIn(tr, cached, order, path, reqRank) ==
    IF path = <<"*">> /\ reqRank # 0 THEN cached
    ELSE LET Keep(rank) ==
                 IF path = <<"*">> THEN TRUE
                 ELSE /\ rank # reqRank
                      /\ getValue(tr[rank], path).handle # NilHandle
         IN Join(InsertionSort(SelectSeq(order, Keep)))

\* the result does not depend on the order of the visit
allowed(path, reqRank) ==
    allowedIn(trees, globalAllowed, CHOOSE o \in MapOrders(trees) : TRUE, path, reqRank)

(***************************************************************************)
(* Parameter pool.                                                         *)
(***************************************************************************)
Buffer(cap) == [cap |-> cap, len |-> 0, arr |-> <<>>]

FreeIds(bf) == (1..MaxBufs) \ DOMAIN bf

Drop(bf, id) == [i \in DOMAIN bf \ {id} |-> bf[i]]

\* a mutant of getParams: Get hands a pooled buffer out and leaves it pooled
getParamsKeep(pl, bf) ==
    {[id |-> b, pool |-> pl, bufs |-> [bf EXCEPT ![b].len = 0]] : b \in pl}
    \cup
    (IF poolNew
     THEN {[id |-> i, pool |-> pl, bufs |-> (i :> Buffer(maxParams)) @@ bf] :
              i \in {j \in FreeIds(bf) : \A k \in FreeIds(bf) : j <= k}}
     ELSE {[id |-> 0, pool |-> pl, bufs |-> bf]})

\* a mutant of getParams: "*ps = (*ps)[0:0]" is missing
getParamsNoReset(pl, bf) ==
    {[id |-> b, pool |-> pl \ {b}, bufs |-> bf] : b \in pl}
    \cup
    (IF poolNew
     THEN {[id |-> i, pool |-> pl, bufs |-> (i :> Buffer(maxParams)) @@ bf] :
              i \in {j \in FreeIds(bf) : \A k \in FreeIds(bf) : j <= k}}
     ELSE {[id |-> 0, pool |-> pl, bufs |-> bf]})

\* a mutant of getParams: New makes the slice without a capacity
getParamsNoCap(pl, bf) ==
    {[id |-> b, pool |-> pl \ {b}, bufs |-> [bf EXCEPT ![b].len = 0]] : b \in pl}
    \cup
    (IF poolNew
     THEN {[id |-> i, pool |-> pl, bufs |-> (i :> Buffer(0)) @@ bf] :
              i \in {j \in FreeIds(bf) : \A k \in FreeIds(bf) : j <= k}}
     ELSE {[id |-> 0, pool |-> pl, bufs |-> bf]})

\* Router.getParams: what paramsPool.Get may return, with the pool and the
\* buffers afterwards.  Get takes any pooled buffer, or ignores the pool and
\* calls New; without New it returns nil (id 0).  The length is reset to 0.
getParams(pl, bf) ==
    {[id |-> b, pool |-> pl \ {b}, bufs |-> [bf EXCEPT ![b].len = 0]] : b \in pl}
    \cup
    (IF poolNew
     THEN {[id |-> i, pool |-> pl, bufs |-> (i :> Buffer(maxParams)) @@ bf] :
              i \in {j \in FreeIds(bf) : \A k \in FreeIds(bf) : j <= k}}
     ELSE {[id |-> 0, pool |-> pl, bufs |-> bf]})

\* Router.putParams
putParams(pl, id) == IF id # 0 THEN pl \cup {id} ELSE pl

\* getValue's writes "*ps = (*ps)[:i+1]; (*ps)[i] = Param{...}" for every capture
WriteAt(arr, i, p) ==
    IF i <= Len(arr) THEN [arr EXCEPT ![i] = p] ELSE Append(arr, p)

RECURSIVE WriteAll(_, _, _)
WriteAll(arr, from, ps) ==
    IF ps = <<>> THEN arr
    ELSE WriteAll(WriteAt(arr, from, Head(ps)), from + 1, Tail(ps))

Fill(b, caps) ==
    [b EXCEPT !.len = b.len + Len(caps), !.arr = WriteAll(b.arr, b.len + 1, caps)]

\* *ps: the Params a buffer holds
Deref(b) == SubSeq(b.arr, 1, b.len)

(***************************************************************************)
(* Registration.                                                           *)
(***************************************************************************)
\* a mutant of saveMatchedRoutePath: the handle is stored as it came
saveMatchedRoutePathNone(path, h) == HandleOf(h, FALSE, <<>>)

\* Router.saveMatchedRoutePath: the closure over path and handle; what it does
\* when called is in TaskStart
saveMatchedRoutePath(path, h) == HandleOf(h, TRUE, path)

\* a mutant of badRank: rank 0 passes the test
badRankOffByOne(rank) == rank < 0 \/ rank > MaxRank

\* "if rank <= 0 || rank > 255 { panic }"
badRank(rank) == rank <= 0 \/ rank > MaxRank

\* Router.Handle, while fewer than cap calls were made; a panic reaches the
\* caller and leaves what was already written
HandleUpTo(cap, path, rank, h) ==
    /\ ~crashed
    /\ nregs < cap
    /\ nregs' = nregs + 1
    /\ IF badRank(rank)
       THEN /\ last' = Call("Handle", <<>>, "panic: rank must be > 0", 0)
            /\ UNCHANGED routerVars
       ELSE IF h = 0
       THEN /\ last' = Call("Handle", <<>>, "panic: handle must not be nil", 0)
            /\ UNCHANGED routerVars
       ELSE
       LET tpath == fromNatsPath(path)
           varsCount == IF SaveMatchedRoutePath THEN 1 ELSE 0
           handle == IF SaveMatchedRoutePath
                     THEN saveMatchedRoutePath(tpath, h)
                     ELSE HandleOf(h, FALSE, <<>>)
           isNew == rank \notin DOMAIN trees
           withRoot == IF isNew THEN (rank :> {}) @@ trees ELSE trees
           paramsCount == countParams(tpath)
           newMax == IF (paramsCount + varsCount) % Uint16 > maxParams
                     THEN (paramsCount + varsCount) % Uint16
                     ELSE maxParams
       IN
       /\ \E order \in MapOrders(withRoot) :
             globalAllowed' =
                 IF isNew
                 THEN allowedIn(withRoot, globalAllowed, order, <<"*">>, 0)
                 ELSE globalAllowed
       /\ IF addRouteFails(withRoot[rank], tpath)
          THEN /\ trees' = withRoot
               /\ last' = Call("Handle", <<>>, "panic: addRoute", 0)
               /\ UNCHANGED <<maxParams, poolNew>>
          ELSE /\ trees' = [withRoot EXCEPT ![rank] = addRoute(@, tpath, handle)]
               /\ maxParams' = newMax
               /\ poolNew' = (poolNew \/ newMax > 0)
               /\ last' = Call("Handle", <<>>, "nil", 0)
       /\ UNCHANGED <<pool, bufs, SaveMatchedRoutePath, rankIndexList, initialized>>
    /\ UNCHANGED <<PanicHandler, tasks, recovered, crashed, ndisp>>

\* Router.Handle, for at most MaxRegs calls
Handle(path, rank, h) == HandleUpTo(MaxRegs, path, rank, h)

(***************************************************************************)
(* Dispatch.                                                               *)
(***************************************************************************)
\* a mutant of getRankList: the list is rebuilt by every call
getRankListFresh(order) == InsertionSort(order)

\* a mutant of getRankList: the call of sort.Ints is missing
getRankListUnsorted(order) ==
    IF ~initialized THEN rankIndexList \o order ELSE rankIndexList

\* Router.getRankList over the map visited in the given order
getRankList(order) ==
    IF ~initialized THEN InsertionSort(rankIndexList \o order) ELSE rankIndexList

Outcome(kind, pl, bf, rank, handle, buf, ps) ==
    [kind |-> kind, pool |-> pl, bufs |-> bf, rank |-> rank, handle |-> handle,
     buf |-> buf, ps |-> ps]

\* one iteration of the loop of ServeNATS: the trie of the rank is walked;
\* the first capture checks a buffer out (r.getParams) and every capture is
\* written behind the ones the buffer holds.  A probe that finds no handle
\* leaves its buffer to the garbage collector.
ProbeRank(rank, path, pl, bf) ==
    IF rank \notin DOMAIN trees THEN {Outcome("miss", pl, bf, rank, NilHandle, 0, <<>>)}
    ELSE
    LET v == getValue(trees[rank], path) IN
    IF v.caps = <<>>
    THEN {Outcome(IF v.handle # NilHandle THEN "found" ELSE "miss",
                  pl, bf, rank, v.handle, 0, <<>>)}
    ELSE {
        IF g.id = 0
        THEN Outcome("panic", g.pool, g.bufs, rank, NilHandle, 0, <<>>)
        ELSE IF g.bufs[g.id].len + Len(v.caps) > g.bufs[g.id].cap
        THEN Outcome("panic", g.pool, Drop(g.bufs, g.id), rank, NilHandle, 0, <<>>)
        ELSE IF v.handle # NilHandle
        THEN Outcome("found", g.pool, [g.bufs EXCEPT ![g.id] = Fill(@, v.caps)],
                     rank, v.handle, g.id, Deref(Fill(g.bufs[g.id], v.caps)))
        ELSE Outcome("miss", g.pool, Drop(g.bufs, g.id), rank, NilHandle, 0, <<>>)
        : g \in getParams(pl, bf)}

\* a mutant of the loop: a rank that does not match ends it
ProbeNoFallThrough(rankList, path, pl, bf) ==
    IF rankList = <<>> THEN {Outcome("notfound", pl, bf, 0, NilHandle, 0, <<>>)}
    ELSE {IF o.kind = "miss"
          THEN Outcome("notfound", o.pool, o.bufs, 0, NilHandle, 0, <<>>)
          ELSE o : o \in ProbeRank(Head(rankList), path, pl, bf)}

RECURSIVE Probe(_, _, _, _)
\* the loop of ServeNATS over rankList: every way it can end
Probe(rankList, path, pl, bf) ==
    IF rankList = <<>> THEN {Outcome("notfound", pl, bf, 0, NilHandle, 0, <<>>)}
    ELSE UNION {
        IF o.kind = "miss" THEN Probe(Tail(rankList), path, o.pool, o.bufs) ELSE {o}
        : o \in ProbeRank(Head(rankList), path, pl, bf)}

Task(msg, payload, o) ==
    [msg |-> msg, payload |-> payload, rank |-> o.rank, handle |-> o.handle,
     buf |-> o.buf, ps |-> o.ps, st |-> "launched", seen |-> <<>>, wbuf |-> 0]

\* a mutant of launch: both branches of "if ps != nil" start a goroutine
launchBoth(n, msg, payload, o) ==
    (<<n, 1>> :> Task(msg, payload, o))
    @@ (<<n, 2>> :> [Task(msg, payload, o) EXCEPT !.buf = 0, !.ps = <<>>])

\* a mutant of launch: the handle is called in place, without the go statement,
\* so the handler is already running when the call comes back
launchInline(n, msg, payload, o) ==
    <<n, 1>> :> [Task(msg, payload, o) EXCEPT !.st = "running",
                                              !.seen = IF o.buf # 0 THEN o.ps ELSE <<>>]

\* the go statements of call n once a handle is found: one goroutine, with
\* the buffer when parameters were captured and with nil otherwise
launch(n, msg, payload, o) == <<n, 1>> :> Task(msg, payload, o)

\* a mutant of notFound: the loop falls through to "return nil"
notFoundNil == "nil"

\* errors.New("404 NotFound"), the return after the loop
notFound == "404 NotFound"

\* Router.recv, deferred by ServeNATS when PanicHandler is set
recv(msg, rcv) == Append(recovered, [msg |-> msg, rcv |-> rcv])

\* the body shared by ServeNATS and ServeNATSWithPayload, up to its return
Serve(op, msg, payload) ==
    /\ ~crashed
    /\ ndisp < MaxDispatch
    /\ ndisp' = ndisp + 1
    /\ \E order \in MapOrders(trees) :
          /\ rankIndexList' = getRankList(order)
          /\ initialized' = TRUE
    /\ \E o \in Probe(rankIndexList', msg, pool, bufs) :
          /\ pool' = o.pool
          /\ bufs' = o.bufs
          /\ CASE o.kind = "found" ->
                    /\ tasks' = launch(ndisp', msg, payload, o) @@ tasks
                    /\ last' = Call(op, msg, "nil",
                                     Cardinality(DOMAIN launch(ndisp', msg, payload, o)))
                    /\ UNCHANGED recovered
               [] o.kind = "notfound" ->
                    /\ last' = Call(op, msg, notFound, 0)
                    /\ UNCHANGED <<tasks, recovered>>
               [] o.kind = "panic" ->
                    /\ IF PanicHandler
                       THEN /\ recovered' = recv(msg, "runtime error")
                            /\ last' = Call(op, msg, "nil", 0)
                       ELSE /\ last' = Call(op, msg, "panic", 0)
                            /\ UNCHANGED recovered
                    /\ UNCHANGED tasks
    /\ UNCHANGED <<trees, maxParams, poolNew, SaveMatchedRoutePath, globalAllowed,
                   PanicHandler, crashed, nregs>>

ServeNATS(msg) == Serve("ServeNATS", msg, NoPayload)

ServeNATSWithPayload(msg, payload) == Serve("ServeNATSWithPayload", msg, payload)

(***************************************************************************)
(* The launched goroutines.                                                *)
(***************************************************************************)
\* go func() { handle(msg, *ps, payload) ... }: the call of the stored handle;
\* a handle wrapped by saveMatchedRoutePath first adds its parameter
TaskStart(i) ==
    /\ ~crashed
    /\ tasks[i].st = "launched"
    /\ LET t == tasks[i]
           mrp == Param(MatchedRoutePathParam, t.handle.path)
       IN
       IF ~t.handle.saved
       THEN /\ tasks' = [tasks EXCEPT ![i].st = "running",
                                      ![i].seen = IF t.buf # 0 THEN Deref(bufs[t.buf])
                                                  ELSE <<>>]
            /\ UNCHANGED <<pool, bufs, crashed>>
       ELSE IF t.buf # 0
       THEN \* ps = append(ps, Param{...}): in place while the capacity lasts
            /\ tasks' = [tasks EXCEPT ![i].st = "running",
                                      ![i].seen = Append(Deref(bufs[t.buf]), mrp)]
            /\ bufs' = IF Len(t.ps) < bufs[t.buf].cap
                       THEN [bufs EXCEPT ![t.buf].arr = WriteAt(@, Len(t.ps) + 1, mrp)]
                       ELSE bufs
            /\ UNCHANGED <<pool, crashed>>
       ELSE \* psp := r.getParams(); ps := (*psp)[0:1]
            \E g \in getParams(pool, bufs) :
               IF g.id = 0 \/ (g.id # 0 /\ g.bufs[g.id].cap < 1)
               THEN /\ tasks' = [tasks EXCEPT ![i].st = "panicked"]
                    /\ crashed' = TRUE
                    /\ pool' = g.pool
                    /\ bufs' = IF g.id = 0 THEN g.bufs ELSE Drop(g.bufs, g.id)
               ELSE /\ tasks' = [tasks EXCEPT ![i].st = "running", ![i].seen = <<mrp>>,
                                              ![i].wbuf = g.id]
                    /\ pool' = g.pool
                    /\ bufs' = [g.bufs EXCEPT ![g.id].arr = WriteAt(@, 1, mrp)]
                    /\ UNCHANGED crashed
    /\ UNCHANGED <<trees, maxParams, poolNew, SaveMatchedRoutePath, globalAllowed,
                   rankIndexList, initialized, PanicHandler, recovered, last, nregs, ndisp>>

\* a mutant of TaskReturn: "r.putParams(ps)" is missing after the handler
TaskReturnKeep(i) ==
    /\ ~crashed
    /\ tasks[i].st = "running"
    /\ tasks' = [j \in DOMAIN tasks \ {i} |-> tasks[j]]
    /\ UNCHANGED <<trees, maxParams, poolNew, pool, bufs, SaveMatchedRoutePath,
                   globalAllowed, rankIndexList, initialized, PanicHandler, recovered,
                   crashed, last, nregs, ndisp>>

\* the handler returns: the wrapper and then the goroutine return their buffers
TaskReturn(i) ==
    /\ ~crashed
    /\ tasks[i].st = "running"
    /\ tasks' = [j \in DOMAIN tasks \ {i} |-> tasks[j]]
    /\ pool' = putParams(putParams(pool, tasks[i].wbuf), tasks[i].buf)
    /\ UNCHANGED <<trees, maxParams, poolNew, bufs, SaveMatchedRoutePath, globalAllowed,
                   rankIndexList, initialized, PanicHandler, recovered, crashed, last,
                   nregs, ndisp>>

\* a mutant of TaskPanic: the goroutine recovers, returns its buffers and the
\* process goes on
TaskPanicRecovered(i) ==
    /\ ~crashed
    /\ tasks[i].st = "running"
    /\ tasks' = [tasks EXCEPT ![i].st = "panicked"]
    /\ pool' = putParams(putParams(pool, tasks[i].wbuf), tasks[i].buf)
    /\ UNCHANGED <<trees, maxParams, poolNew, bufs, SaveMatchedRoutePath, globalAllowed,
                   rankIndexList, initialized, PanicHandler, recovered, crashed, last,
                   nregs, ndisp>>

\* the handler panics: nothing on the goroutine recovers, the process ends
TaskPanic(i) ==
    /\ ~crashed
    /\ tasks[i].st = "running"
    /\ tasks' = [tasks EXCEPT ![i].st = "panicked"]
    /\ crashed' = TRUE
    /\ UNCHANGED <<trees, maxParams, poolNew, pool, bufs, SaveMatchedRoutePath,
                   globalAllowed, rankIndexList, initialized, PanicHandler, recovered,
                   last, nregs, ndisp>>

Next ==
    \/ \E k \in DOMAIN Patterns, rank \in RankInputs \cap 1..MaxRank :
          Handle(Patterns[k], rank, HandlerFor(Patterns[k], rank))
    \/ \E c \in InvalidCalls : Handle(PatUserRest, c[1], c[2])
    \/ \E msg \in Subjects : ServeNATS(msg)
    \/ \E msg \in PayloadSubjects, payload \in Payloads :
          ServeNATSWithPayload(msg, payload)
    \/ \E i \in DOMAIN tasks : TaskStart(i)
    \/ \E i \in DOMAIN tasks : TaskReturn(i)
    \/ \E i \in DOMAIN tasks : TaskPanic(i)

Spec == Init /\ [][Next]_vars

SpecRecovery == InitRecovery /\ [][Next]_vars

(***************************************************************************)
(* Lookup and the allowed-ranks query.                                     *)
(***************************************************************************)
\* what the caller of Lookup or allowed saw: res is the value returned
Answer(op, err, res) ==
    [op |-> op, msg |-> <<>>, err |-> err, launched |-> 0, res |-> res]

\* the three results of Lookup
Found(handle, ps, tsr) == [handle |-> handle, ps |-> ps, tsr |-> tsr]

\* the arguments of a call of Lookup with its results
Looked(path, rank, found) ==
    [path |-> path, rank |-> rank,
     handle |-> found.handle, ps |-> found.ps, tsr |-> found.tsr]

\* Router.Lookup: getValue on the trie of the rank alone, with r.getParams as
\* the buffer factory; a buffer checked out for a subject that is not found
\* goes back to the pool, one that is found stays with the caller
Lookup(path, rank) ==
    /\ ~crashed
    /\ LET Result(err, found) == Answer("Lookup", err, Looked(path, rank, found))
           none == Found(NilHandle, <<>>, FALSE)
       IN
       IF rank \notin DOMAIN trees
       THEN /\ last' = Result("nil", none)
            /\ UNCHANGED <<pool, bufs>>
       ELSE
       LET v == getValue(trees[rank], path) IN
       IF v.caps = <<>>
       THEN /\ last' = Result("nil", Found(v.handle, <<>>, FALSE))
            /\ UNCHANGED <<pool, bufs>>
       ELSE \E g \in getParams(pool, bufs) :
               IF g.id = 0
               THEN /\ last' = Result("panic", none)
                    /\ pool' = g.pool
                    /\ bufs' = g.bufs
               ELSE IF g.bufs[g.id].len + Len(v.caps) > g.bufs[g.id].cap
               THEN /\ last' = Result("panic", none)
                    /\ pool' = g.pool
                    /\ bufs' = Drop(g.bufs, g.id)
               ELSE IF v.handle = NilHandle
               THEN /\ last' = Result("nil", none)
                    /\ pool' = putParams(g.pool, g.id)
                    /\ bufs' = [g.bufs EXCEPT ![g.id] = Fill(@, v.caps)]
               ELSE /\ last' = Result("nil",
                                      Found(v.handle,
                                            Deref(Fill(g.bufs[g.id], v.caps)), FALSE))
                    /\ pool' = g.pool
                    /\ bufs' = Drop(g.bufs, g.id)
    /\ UNCHANGED <<trees, maxParams, poolNew, SaveMatchedRoutePath, globalAllowed,
                   rankIndexList, initialized, PanicHandler, tasks, recovered, crashed,
                   nregs, ndisp>>

\* the arguments of a call of allowed and the string it returned
Allow(path, reqRank, allow) == [path |-> path, reqRank |-> reqRank, allow |-> allow]

\* a mutant of AllowedRanks: the tries are probed with r.getParams instead
\* of nil, and the buffer of a match is kept
AllowedRanksWithFactory(path, reqRank) ==
    /\ ~crashed
    /\ \E order \in MapOrders(trees) :
          LET allow == allowedIn(trees, globalAllowed, order, path, reqRank)
          IN /\ last' = Answer("allowed", "nil", Allow(path, reqRank, allow))
             /\ IF path # <<"*">> /\ allow # ""
                THEN \E g \in getParams(pool, bufs) : pool' = g.pool /\ bufs' = g.bufs
                ELSE UNCHANGED <<pool, bufs>>
    /\ UNCHANGED <<trees, maxParams, poolNew, SaveMatchedRoutePath,
                   globalAllowed, rankIndexList, initialized, PanicHandler, tasks,
                   recovered, crashed, nregs, ndisp>>

\* a call of Router.allowed(path, reqRank) from outside Handle
AllowedRanks(path, reqRank) ==
    /\ ~crashed
    /\ \E order \in MapOrders(trees) :
          last' = Answer("allowed", "nil",
                         Allow(path, reqRank,
                               allowedIn(trees, globalAllowed, order, path, reqRank)))
    /\ UNCHANGED <<trees, maxParams, poolNew, pool, bufs, SaveMatchedRoutePath,
                   globalAllowed, rankIndexList, initialized, PanicHandler, tasks,
                   recovered, crashed, nregs, ndisp>>

LateBase == 100
\* the function a call site registers for (path, rank): the call sites that
\* run after the first ServeNATS call are numbered from LateBase
HandlerAt(path, rank) ==
    HandlerFor(path, rank) + (IF initialized THEN LateBase ELSE 0)

LookupRanks == {1, 2, 3}
AllowedPaths == {<<"*">>} \cup Subjects
AllowedRanksInputs == {0, 1, 2}

QueryOps == {"Lookup", "allowed"}

\* one caller that waits for the handler of a message before its next call
\* (the tests do, with wg.Wait) and asks one question between two calls of
\* Handle or ServeNATS, and the goroutine of that handler
NextQuery ==
    \/ /\ tasks = <<>>
       /\ \/ \E k \in DOMAIN Patterns, rank \in RankInputs \cap 1..MaxRank :
                Handle(Patterns[k], rank, HandlerAt(Patterns[k], rank))
          \/ \E msg \in Subjects : ServeNATS(msg)
          \/ /\ last.op \notin QueryOps
             /\ \/ \E path \in Subjects, rank \in LookupRanks : Lookup(path, rank)
                \/ \E path \in {<<"*">>, SubLong}, reqRank \in {0, 1} :
                      AllowedRanks(path, reqRank)
    \/ \E i \in DOMAIN tasks : TaskStart(i)
    \/ \E i \in DOMAIN tasks : TaskReturn(i)

\* SaveMatchedRoutePath is left false
InitQuery == Init /\ ~SaveMatchedRoutePath

SpecQuery == InitQuery /\ [][NextQuery]_vars

(***************************************************************************)
(* Registrations and the allowed-ranks query alone.                        *)
(***************************************************************************)
MaxAllowedRegs == 4

AllowedRegRanks == {1, 2, 3, 4}
AllowedPatterns == {PatUserRest, PatUserGopher}

NextAllowed ==
    \/ \E path \in AllowedPatterns, rank \in AllowedRegRanks :
          HandleUpTo(MaxAllowedRegs, path, rank, HandlerFor(path, rank))
    \/ \E path \in AllowedPaths, reqRank \in AllowedRanksInputs :
          AllowedRanks(path, reqRank)

SpecAllowed == InitQuery /\ [][NextAllowed]_vars

(***************************************************************************)
(* The caller changes SaveMatchedRoutePath between calls.                  *)
(***************************************************************************)
\* r.SaveMatchedRoutePath = b, an assignment to the public field
SetSaveMatchedRoutePath(b) ==
    /\ ~crashed
    /\ b # SaveMatchedRoutePath
    /\ SaveMatchedRoutePath' = b
    /\ UNCHANGED <<trees, maxParams, poolNew, pool, bufs, globalAllowed,
                   rankIndexList, initialized, PanicHandler, tasks, recovered,
                   crashed, last, nregs, ndisp>>

SavedBase == 200
\* the function a call site registers for (path, rank): the call sites that
\* run while SaveMatchedRoutePath is set are numbered from SavedBase
HandlerWhile(path, rank) ==
    HandlerFor(path, rank) + (IF SaveMatchedRoutePath THEN SavedBase ELSE 0)

FlagPatterns == {PatUserStarRest, PatUserGopher}

NextFlag ==
    \/ \E path \in FlagPatterns, rank \in RankInputs \cap 1..MaxRank :
          Handle(path, rank, HandlerWhile(path, rank))
    \/ \E b \in BOOLEAN : SetSaveMatchedRoutePath(b)
    \/ \E msg \in Subjects : ServeNATS(msg)
    \/ \E i \in DOMAIN tasks : TaskStart(i)
    \/ \E i \in DOMAIN tasks : TaskReturn(i)

SpecFlag == Init /\ [][NextFlag]_vars

(***************************************************************************)
(* The parameter pool on its own: registrations, and getParams and         *)
(* putParams called directly.                                              *)
(***************************************************************************)
\* what a call of getParams found and returned: whether the free list was
\* empty, the buffer (id 0 is nil), whether New made it, and its state
Got(empty, id, fresh, buf) == [empty |-> empty, id |-> id, fresh |-> fresh, buf |-> buf]

NoBuffer == [cap |-> 0, len |-> 0, arr |-> <<>>]

\* r.getParams()
Checkout ==
    /\ ~crashed
    /\ \E g \in getParams(pool, bufs) :
          /\ pool' = g.pool
          /\ bufs' = g.bufs
          /\ last' = Answer("getParams", "nil",
                            Got(pool = {}, g.id, g.id \notin DOMAIN bufs,
                                IF g.id = 0 THEN NoBuffer ELSE g.bufs[g.id]))
    /\ UNCHANGED <<trees, maxParams, poolNew, SaveMatchedRoutePath, globalAllowed,
                   rankIndexList, initialized, PanicHandler, tasks, recovered,
                   crashed, nregs, ndisp>>

\* r.putParams(ps) with a buffer the caller holds
Return(id) ==
    /\ ~crashed
    /\ id \in DOMAIN bufs \ pool
    /\ pool' = putParams(pool, id)
    /\ last' = Answer("putParams", "nil", Got(pool = {}, id, FALSE, bufs[id]))
    /\ UNCHANGED <<trees, maxParams, poolNew, bufs, SaveMatchedRoutePath,
                   globalAllowed, rankIndexList, initialized, PanicHandler, tasks,
                   recovered, crashed, nregs, ndisp>>

NextPool ==
    \/ \E k \in DOMAIN Patterns, rank \in RankInputs \cap 1..MaxRank :
          Handle(Patterns[k], rank, HandlerFor(Patterns[k], rank))
    \/ Checkout
    \/ \E id \in 1..MaxBufs : Return(id)

SpecPool == Init /\ [][NextPool]_vars

(***************************************************************************)
(* Registrations of patterns that name their parameter themselves.         *)
(***************************************************************************)
wName == <<"n", "a", "m", "e">>
PatUserNamedRest == wUser \o <<".", ":">> \o wName \o <<".", ">">>      \* user.:name.>
ConflictPatterns == <<PatUserStarRest, PatUserNamedRest, PatUserGopher>>
ConflictRanks == {1, 2}

\* the function the call site for (path, rank) registers
HandlerIn(pats, path, rank) ==
    rank * 10 + (CHOOSE k \in DOMAIN pats : pats[k] = path)

\* no call site repeats a registration: a failed call is a conflict between
\* two different patterns
NextConflict ==
    \/ \E k \in DOMAIN ConflictPatterns, rank \in ConflictRanks :
          /\ rank \in DOMAIN trees =>
                \A q \in trees[rank] : q.path # fromNatsPath(ConflictPatterns[k])
          /\ Handle(ConflictPatterns[k], rank,
                    HandlerIn(ConflictPatterns, ConflictPatterns[k], rank))
    \/ \E msg \in Subjects : ServeNATS(msg)
    \/ \E i \in DOMAIN tasks : TaskStart(i)
    \/ \E i \in DOMAIN tasks : TaskReturn(i)

SpecConflict == InitQuery /\ [][NextConflict]_vars

(***************************************************************************)
(* Params.ByName on its own.                                               *)
(***************************************************************************)
MaxParamsLen == 3

KeyInputs == {<<"a">>, <<"b">>}
ValueInputs == {<<"1">>, <<"2">>}
NameInputs == KeyInputs \cup {<<"n", "o", "K", "e", "y">>}

\* the Params values ByName is called on: up to MaxParamsLen entries, keys
\* may repeat
ParamsInputs ==
    UNION {[1..n -> {Param(k, v) : k \in KeyInputs, v \in ValueInputs}] :
              n \in 0..MaxParamsLen}

\* a call ps.ByName(name) and its result
Named(ps, name, value) == [ps |-> ps, name |-> name, value |-> value]

\* New(), and a Params value with a name about to be looked up
InitByName ==
    /\ trees = <<>>
    /\ maxParams = 0
    /\ poolNew = FALSE
    /\ pool = {}
    /\ bufs = <<>>
    /\ SaveMatchedRoutePath = FALSE
    /\ globalAllowed = <<>>
    /\ rankIndexList = <<>>
    /\ initialized = FALSE
    /\ PanicHandler = FALSE
    /\ tasks = <<>>
    /\ recovered = <<>>
    /\ crashed = FALSE
    /\ \E ps \in ParamsInputs, name \in NameInputs :
          last = Answer("params", "nil", Named(ps, name, <<>>))
    /\ nregs = 0
    /\ ndisp = 0

\* the call ps.ByName(name)
CallByName ==
    /\ last.op = "params"
    /\ last' = Answer("ByName", "nil",
                      Named(last.res.ps, last.res.name,
                            ByName(last.res.ps, last.res.name)))
    /\ UNCHANGED <<trees, maxParams, poolNew, pool, bufs, SaveMatchedRoutePath,
                   globalAllowed, rankIndexList, initialized, PanicHandler, tasks,
                   recovered, crashed, nregs, ndisp>>

NextByName == CallByName

SpecByName == InitByName /\ [][NextByName]_vars

(***************************************************************************)
(* Dispatch calls whose own code panics, with PanicHandler set.            *)
(***************************************************************************)
NilMsg == <<"n", "i", "l">>      \* a nil SubjectMsg

\* r.ServeNATS(nil): msg.GetSubject() panics before anything else is done.
\* With PanicHandler set the deferred recv recovers, calls PanicHandler and
\* ServeNATS returns the zero value of its result, a nil error; without it
\* the panic reaches the caller.
ServeNATSNil ==
    /\ ~crashed
    /\ ndisp < MaxDispatch
    /\ ndisp' = ndisp + 1
    /\ IF PanicHandler
       THEN /\ recovered' = recv(NilMsg, "nil pointer dereference")
            /\ last' = Call("ServeNATS", NilMsg, "nil", 0)
       ELSE /\ last' = Call("ServeNATS", NilMsg, "panic", 0)
            /\ UNCHANGED recovered
    /\ UNCHANGED <<trees, maxParams, poolNew, pool, bufs, SaveMatchedRoutePath,
                   globalAllowed, rankIndexList, initialized, PanicHandler, tasks,
                   crashed, nregs>>

NextBadMsg ==
    \/ \E k \in DOMAIN Patterns, rank \in RankInputs \cap 1..MaxRank :
          Handle(Patterns[k], rank, HandlerFor(Patterns[k], rank))
    \/ \E msg \in Subjects : ServeNATS(msg)
    \/ ServeNATSNil
    \/ \E i \in DOMAIN tasks : TaskStart(i)
    \/ \E i \in DOMAIN tasks : TaskReturn(i)

SpecBadMsg == InitRecovery /\ [][NextBadMsg]_vars

(***************************************************************************)
(* Fair scheduling of the goroutines.                                      *)
(***************************************************************************)
\* the goroutine of the go statement of call n
GoroutineOf(n) == <<n, 1>>

\* the runtime schedules every goroutine that can run: a launched goroutine
\* calls its handle.  Nothing obliges a handler to return.
Scheduling ==
    \A n \in 1..MaxDispatch :
        WF_vars(GoroutineOf(n) \in DOMAIN tasks /\ TaskStart(GoroutineOf(n)))

FairRanks == {1, 2}

\* registrations of two patterns, dispatches with and without a payload, and
\* the goroutines' steps
NextFair ==
    \/ \E path \in FlagPatterns, rank \in FairRanks :
          Handle(path, rank, HandlerFor(path, rank))
    \/ \E msg \in Subjects : ServeNATS(msg)
    \/ \E msg \in PayloadSubjects, payload \in Payloads :
          ServeNATSWithPayload(msg, payload)
    \/ \E i \in DOMAIN tasks : TaskStart(i)
    \/ \E i \in DOMAIN tasks : TaskReturn(i)
    \/ \E i \in DOMAIN tasks : TaskPanic(i)

SpecFair == Init /\ [][NextFair]_vars /\ Scheduling

(***************************************************************************)
(* Dispatch calls that run at the same time.  getRankList takes no lock:   *)
(* its reads and writes of r.initialized and r.rankIndexList are steps of  *)
(* their own, and the steps of different calls interleave.                 *)
(***************************************************************************)
\* the goroutine that makes call n
CallerOf(n) == <<n, 0>>

\* a ServeNATS call in progress: st is its position, todo the ranks its range
\* loop has yet to append, read the slice it read for the append under way,
\* list the rank list it got back, err what it returned
Caller(st, msg, todo, read, list, err) ==
    [st |-> st, msg |-> msg, todo |-> todo, read |-> read, list |-> list, err |-> err]

Callers == {c \in DOMAIN tasks : c[2] = 0}

raceFrame == <<trees, maxParams, poolNew, pool, bufs, SaveMatchedRoutePath,
               globalAllowed, PanicHandler, recovered, crashed, last, nregs>>

\* ServeNATS is called: "path := msg.GetSubject()"
Enter(msg) ==
    /\ ~crashed
    /\ ndisp < MaxDispatch
    /\ ndisp' = ndisp + 1
    /\ tasks' = (CallerOf(ndisp') :> Caller("called", msg, <<>>, <<>>, <<>>, "")) @@ tasks
    /\ UNCHANGED <<raceFrame, rankIndexList, initialized>>

\* "if !r.initialized": the flag is read, and the range loop picks its order
ReadFlag(c) ==
    /\ tasks[c].st = "called"
    /\ IF initialized
       THEN tasks' = [tasks EXCEPT ![c].st = "returning"]
       ELSE \E order \in MapOrders(trees) :
               tasks' = [tasks EXCEPT ![c].st = IF order = <<>> THEN "sorting"
                                                ELSE "ranging",
                                      ![c].todo = order]
    /\ UNCHANGED <<raceFrame, rankIndexList, initialized, ndisp>>

\* "append(r.rankIndexList, rank)": the slice is read
ReadList(c) ==
    /\ tasks[c].st = "ranging"
    /\ tasks' = [tasks EXCEPT ![c].st = "appending", ![c].read = rankIndexList]
    /\ UNCHANGED <<raceFrame, rankIndexList, initialized, ndisp>>

\* "r.rankIndexList = append(...)": the slice read, one rank longer, is stored
WriteList(c) ==
    /\ tasks[c].st = "appending"
    /\ rankIndexList' = Append(tasks[c].read, Head(tasks[c].todo))
    /\ tasks' = [tasks EXCEPT ![c].st = IF Tail(tasks[c].todo) = <<>> THEN "sorting"
                                        ELSE "ranging",
                              ![c].todo = Tail(@)]
    /\ UNCHANGED <<raceFrame, initialized, ndisp>>

\* "sort.Ints(r.rankIndexList)"
SortList(c) ==
    /\ tasks[c].st = "sorting"
    /\ rankIndexList' = InsertionSort(rankIndexList)
    /\ tasks' = [tasks EXCEPT ![c].st = "flagging"]
    /\ UNCHANGED <<raceFrame, initialized, ndisp>>

\* "r.initialized = true"
SetFlag(c) ==
    /\ tasks[c].st = "flagging"
    /\ initialized' = TRUE
    /\ tasks' = [tasks EXCEPT ![c].st = "returning"]
    /\ UNCHANGED <<raceFrame, rankIndexList, ndisp>>

\* "return r.rankIndexList", the loop of ServeNATS over the list returned, and
\* the go statement or the 404
Finish(c) ==
    /\ tasks[c].st = "returning"
    /\ \E o \in Probe(rankIndexList, tasks[c].msg, pool, bufs) :
          LET done(err) == [tasks EXCEPT ![c].st = "returned",
                                         ![c].list = rankIndexList,
                                         ![c].err = err]
          IN
          /\ pool' = o.pool
          /\ bufs' = o.bufs
          /\ CASE o.kind = "found" ->
                    /\ tasks' = launch(c[1], tasks[c].msg, NoPayload, o) @@ done("nil")
                    /\ last' = Call("ServeNATS", tasks[c].msg, "nil", 1)
               [] o.kind = "notfound" ->
                    /\ tasks' = done(notFound)
                    /\ last' = Call("ServeNATS", tasks[c].msg, notFound, 0)
               [] o.kind = "panic" ->
                    /\ tasks' = done("panic")
                    /\ last' = Call("ServeNATS", tasks[c].msg, "panic", 0)
    /\ UNCHANGED <<trees, maxParams, poolNew, SaveMatchedRoutePath, globalAllowed,
                   PanicHandler, recovered, crashed, nregs, rankIndexList,
                   initialized, ndisp>>

RacePatterns == {PatUserStarRest, PatUserGopher}
RaceRanks == {1, 2}

\* the routes are registered before the first call; then the calls run at the
\* same time
NextRace ==
    \/ /\ ndisp = 0
       /\ \E path \in RacePatterns, rank \in RaceRanks :
             Handle(path, rank, HandlerFor(path, rank))
    \/ \E msg \in Subjects : Enter(msg)
    \/ \E c \in Callers : ReadFlag(c)
    \/ \E c \in Callers : ReadList(c)
    \/ \E c \in Callers : WriteList(c)
    \/ \E c \in Callers : SortList(c)
    \/ \E c \in Callers : SetFlag(c)
    \/ \E c \in Callers : Finish(c)

SpecRace == InitQuery /\ [][NextRace]_vars

(***************************************************************************)
(* Registrations that fail inside addRoute, between calls of allowed.      *)
(***************************************************************************)
\* "*.user": fromNatsPath leaves the leading "*" as it is, and addRoute gets a
\* catch-all that is neither named nor last
PatStarUser == <<"*", ".">> \o wUser

FailingPatterns == <<PatStarUser, PatUserStarRest, PatUserGopher>>
FailingRanks == {1, 2}

NextFailing ==
    \/ \E k \in DOMAIN FailingPatterns, rank \in FailingRanks :
          HandleUpTo(MaxAllowedRegs, FailingPatterns[k], rank,
                     HandlerIn(FailingPatterns, FailingPatterns[k], rank))
    \/ \E reqRank \in AllowedRanksInputs : AllowedRanks(<<"*">>, reqRank)

SpecFailing == InitQuery /\ [][NextFailing]_vars

(***************************************************************************)
(* The pattern translator on its own.                                      *)
(***************************************************************************)
MaxTokens == 4

\* the tokens NATS patterns are made of: a literal, the single-token wildcard
\* and the full wildcard
TokenInputs == {wUser, <<"*">>, <<">">>}

RECURSIVE DotJoin(_)
\* the tokens of a pattern written with "." between them
DotJoin(ts) ==
    IF Len(ts) = 1 THEN ts[1] ELSE ts[1] \o <<".">> \o DotJoin(Tail(ts))

\* the patterns handed to fromNatsPath: up to MaxTokens tokens
TranslateInputs ==
    {DotJoin(ts) : ts \in UNION {[1..n -> TokenInputs] : n \in 1..MaxTokens}}

\* a pattern and what fromNatsPath made of it
Translation(path, result) == [path |-> path, result |-> result]

\* New(), and a pattern about to be translated
InitTranslate ==
    /\ trees = <<>>
    /\ maxParams = 0
    /\ poolNew = FALSE
    /\ pool = {}
    /\ bufs = <<>>
    /\ SaveMatchedRoutePath = FALSE
    /\ globalAllowed = <<>>
    /\ rankIndexList = <<>>
    /\ initialized = FALSE
    /\ PanicHandler = FALSE
    /\ tasks = <<>>
    /\ recovered = <<>>
    /\ crashed = FALSE
    /\ \E path \in TranslateInputs :
          last = Answer("pattern", "nil", Translation(path, <<>>))
    /\ nregs = 0
    /\ ndisp = 0

\* the call fromNatsPath(path), as Handle makes it
Translate ==
    /\ last.op = "pattern"
    /\ last' = Answer("fromNatsPath", "nil",
                      Translation(last.res.path, fromNatsPath(last.res.path)))
    /\ UNCHANGED <<trees, maxParams, poolNew, pool, bufs, SaveMatchedRoutePath,
                   globalAllowed, rankIndexList, initialized, PanicHandler, tasks,
                   recovered, crashed, nregs, ndisp>>

NextTranslate == Translate

SpecTranslate == InitTranslate /\ [][NextTranslate]_vars

(***************************************************************************)
(* Vocabulary of the properties.                                           *)
(***************************************************************************)
ServeOps == {"ServeNATS", "ServeNATSWithPayload"}

\* the state is the one a ServeNATS call returned to, or one reached from it
\* by steps of the goroutines alone (the trees and the rank cache are those
\* the call saw)
Served == last.op \in ServeOps

Range(seq) == {seq[i] : i \in DOMAIN seq}

Cached == Range(rankIndexList)

\* the trie of rank r resolves the subject to a handler
Matches(r, msg) ==
    /\ r \in DOMAIN trees
    /\ getValue(trees[r], msg).handle # NilHandle

\* the goroutines launched by ServeNATS call n that are still alive
LaunchedBy(n) == {id \in DOMAIN tasks : id[1] = n}

RECURSIVE StructMatch(_, _)
\* the subject matches the translated pattern token by token: a parameter
\* stands for one token, a catch-all for the separator and all that follows
StructMatch(p, s) ==
    IF p = <<>> THEN s = <<>>
    ELSE IF HasPrefix(p, <<".", "*">>) THEN s # <<>> /\ Head(s) = "."
    ELSE IF Head(p) = ":"
    THEN /\ TokenLen(s) > 0
         /\ StructMatch(Tail0(p, 1 + TokenLen(Tail(p))), Tail0(s, TokenLen(s)))
    ELSE /\ s # <<>>
         /\ Head(s) = Head(p)
         /\ StructMatch(Tail(p), Tail(s))

(***************************************************************************)
(* C1  Rank precedence.  After a ServeNATS call on a subject that two      *)
(* ranks r1 < r2 of the rank cache both match, the call returned success,  *)
(* launched one goroutine, and that goroutine runs the handler of the      *)
(* smallest matching rank and not the one of r2.                           *)
(***************************************************************************)
C1_RankPrecedence ==
    Served =>
        \A r1, r2 \in Cached :
            (r1 < r2 /\ Matches(r1, last.msg) /\ Matches(r2, last.msg)) =>
                /\ last.err = "nil"
                /\ last.launched = 1
                /\ \A id \in LaunchedBy(ndisp) :
                      /\ tasks[id].rank # r2
                      /\ tasks[id].handle # getValue(trees[r2], last.msg).handle
                      /\ (\A r \in Cached : r < r1 => ~Matches(r, last.msg)) =>
                            /\ tasks[id].rank = r1
                            /\ tasks[id].handle = getValue(trees[r1], last.msg).handle

C1_Witness ==
    /\ Served
    /\ Matches(1, last.msg) /\ Matches(2, last.msg)
    /\ {1, 2} \subseteq Cached
    /\ \E id \in LaunchedBy(ndisp) : tasks[id].rank = 1

(***************************************************************************)
(* C2  Fall-through.  After a ServeNATS call on a subject that some cached *)
(* rank matches, the goroutine launched belongs to the smallest cached     *)
(* rank whose trie matches: cached ranks that do not match are skipped.    *)
(***************************************************************************)
MinMatching(msg) ==
    CHOOSE r \in Cached :
        /\ Matches(r, msg)
        /\ \A q \in Cached : Matches(q, msg) => r <= q

C2_FallThrough ==
    (Served /\ \E r \in Cached : Matches(r, last.msg)) =>
        /\ last.err = "nil"
        /\ last.launched = 1
        /\ \A id \in LaunchedBy(ndisp) :
              /\ tasks[id].rank = MinMatching(last.msg)
              /\ tasks[id].handle =
                     getValue(trees[MinMatching(last.msg)], last.msg).handle

C2_Witness ==
    /\ Served
    /\ 1 \in Cached /\ trees[1] # {} /\ ~Matches(1, last.msg)
    /\ 2 \in Cached /\ Matches(2, last.msg)
    /\ \E id \in LaunchedBy(ndisp) : tasks[id].rank = 2

(***************************************************************************)
(* C3  No fan-out.  A ServeNATS call launches at most one goroutine, also  *)
(* when several ranks match the subject.                                   *)
(***************************************************************************)
C3_AtMostOneHandler ==
    /\ \A n \in 1..ndisp : Cardinality(LaunchedBy(n)) <= 1
    /\ Served => last.launched <= 1

C3_Witness ==
    /\ Served
    /\ Cardinality({r \in Cached : Matches(r, last.msg)}) >= 2
    /\ Cardinality(LaunchedBy(ndisp)) = 1
    /\ last.launched = 1

(***************************************************************************)
(* C4  Not found.  After a ServeNATS call on a subject that no registered  *)
(* pattern of any rank matches, the call returned "404 NotFound" and       *)
(* launched nothing.                                                       *)
(***************************************************************************)
C4_NotFound ==
    (Served /\ \A r \in DOMAIN trees : \A q \in trees[r] : ~StructMatch(q.path, last.msg)) =>
        /\ last.err = "404 NotFound"
        /\ last.launched = 0
        /\ LaunchedBy(ndisp) = {}

C4_Witness ==
    /\ Served
    /\ \E r \in DOMAIN trees : trees[r] # {}
    /\ \A r \in DOMAIN trees : \A q \in trees[r] : ~StructMatch(q.path, last.msg)
    /\ last.err = "404 NotFound"
    /\ LaunchedBy(ndisp) = {}

RECURSIVE Captures(_, _)
\* the wildcard values of a subject that matches the translated pattern,
\* read off the two strings token by token
Captures(p, s) ==
    IF p = <<>> THEN <<>>
    ELSE IF HasPrefix(p, <<".", "*">>) THEN <<Param(Tail0(p, 2), s)>>
    ELSE IF Head(p) = ":"
    THEN <<Param(SubSeq(p, 2, 1 + TokenLen(Tail(p))), SubSeq(s, 1, TokenLen(s)))>>
         \o Captures(Tail0(p, 1 + TokenLen(Tail(p))), Tail0(s, TokenLen(s)))
    ELSE Captures(Tail(p), Tail(s))

\* no cached rank below r resolves the subject
FirstMatch(r, msg) == \A q \in Cached : q < r => ~Matches(q, msg)

\* what the registered function sees once the stored handle has called it
SeenBy(handle, caps) ==
    IF handle.saved
    THEN Append(caps, Param(MatchedRoutePathParam, handle.path))
    ELSE caps

(***************************************************************************)
(* C5 as stated.  After a ServeNATS call, for every route of every rank    *)
(* whose pattern the subject matches token by token, the call returned     *)
(* success and launched the handler of that route with the captured        *)
(* values, in order.                                                       *)
(***************************************************************************)
C5_EveryMatchingPairServed ==
    Served =>
        \A r \in DOMAIN trees : \A q \in trees[r] :
            StructMatch(q.path, last.msg) =>
                /\ last.err = "nil"
                /\ last.launched = 1
                /\ \A id \in LaunchedBy(ndisp) :
                      /\ tasks[id].handle = q.handle
                      /\ tasks[id].ps = Captures(q.path, last.msg)

(***************************************************************************)
(* C5 amended.  After a ServeNATS call, for every route of a cached rank   *)
(* whose pattern the subject matches token by token: when no smaller       *)
(* cached rank resolves the subject and the walk of the rank's own trie    *)
(* ends at that route, the call returned success and launched exactly the  *)
(* handler of that route with the captured values in order; the registered *)
(* function sees them, followed by the matched route path when the route   *)
(* was registered under SaveMatchedRoutePath.                              *)
(***************************************************************************)
C5_ResolvedPairServed ==
    Served =>
        \A r \in Cached : \A q \in trees[r] :
            ( /\ StructMatch(q.path, last.msg)
              /\ FirstMatch(r, last.msg)
              /\ getValue(trees[r], last.msg).handle = q.handle ) =>
                /\ last.err = "nil"
                /\ last.launched = 1
                /\ \A id \in LaunchedBy(ndisp) :
                      /\ tasks[id].rank = r
                      /\ tasks[id].handle = q.handle
                      /\ tasks[id].ps = Captures(q.path, last.msg)
                      /\ tasks[id].st = "running" =>
                            tasks[id].seen =
                                SeenBy(q.handle, Captures(q.path, last.msg))

C5_Witness ==
    /\ Served
    /\ \E r \in Cached : \E q \in trees[r] :
          /\ StructMatch(q.path, last.msg)
          /\ FirstMatch(r, last.msg)
          /\ getValue(trees[r], last.msg).handle = q.handle
          /\ Len(Captures(q.path, last.msg)) = 2
          /\ \E id \in LaunchedBy(ndisp) :
                /\ tasks[id].st = "running"
                /\ tasks[id].seen = Captures(q.path, last.msg)

\* the pattern a registered function was registered with
PatternOf(handle) == Patterns[handle.h % 10]

RECURSIVE NatsKeys(_, _)
\* the keys a NATS pattern announces: p1, p2, ... for its "*" tokens from
\* left to right and ">" for a final ".>"
NatsKeys(path, i) ==
    IF path = <<>> THEN <<>>
    ELSE IF path = <<".", ">">> THEN <<<<">">>>>
    ELSE IF HasPrefix(path, <<".", "*">>)
    THEN <<<<"p">> \o Itoa(i)>> \o NatsKeys(Tail0(path, 2), i + 1)
    ELSE NatsKeys(Tail(path), i)

Keys(ps) == [i \in DOMAIN ps |-> ps[i].Key]

ExampleMixed ==
    <<Param(<<"p", "1">>, wGopher), Param(<<">">>, <<".">> \o wStar \o <<".">> \o wOk)>>

ExampleCatchAll ==
    <<Param(<<">">>, <<".">> \o wGopher \o <<".">> \o wStar \o <<".">> \o wOk)>>

C7_CatchAllTail ==
    /\ Served =>
          \A r \in Cached :
              ( /\ \E q \in trees[r] : q.handle.h = HandlerFor(PatUserRest, r)
                /\ HasPrefix(last.msg, wUser \o <<".">>)
                /\ FirstMatch(r, last.msg) ) =>
                  /\ last.err = "nil"
                  /\ last.launched = 1
                  /\ \A id \in LaunchedBy(ndisp) :
                        /\ tasks[id].handle.h = HandlerFor(PatUserRest, r)
                        /\ tasks[id].ps =
                               <<Param(<<">">>, Tail0(last.msg, Len(wUser)))>>
                        /\ last.msg = SubLong => tasks[id].ps = ExampleCatchAll
    /\ \A id \in DOMAIN tasks :
          \A i \in DOMAIN tasks[id].ps :
              tasks[id].ps[i].Key = <<">">> =>
                  /\ i = Len(tasks[id].ps)
                  /\ Head(tasks[id].ps[i].Value) = "."
                  /\ HasSuffix(tasks[id].msg, tasks[id].ps[i].Value)

C7_Witness ==
    /\ Served
    /\ last.msg = SubLong
    /\ \E id \in LaunchedBy(ndisp) :
          /\ PatternOf(tasks[id].handle) = PatUserRest
          /\ tasks[id].st = "running"
          /\ tasks[id].seen = ExampleCatchAll

(***************************************************************************)
(* C8  Invalid registration.  A Handle call with a rank outside 1..255 or  *)
(* with a nil function panics and changes no field of the router: trees,   *)
(* maxParams, the pool and its New function, globalAllowed, the rank cache *)
(* and its flag all keep their values.                                     *)
(***************************************************************************)
C8_InvalidHandleLeavesState ==
    [][ \A rank \in RankInputs, h \in {0, 1} :
          ( /\ rank \notin 1..MaxRank \/ h = 0
            /\ Handle(PatUserRest, rank, h) ) =>
              /\ last'.op = "Handle"
              /\ last'.err \in {"panic: rank must be > 0",
                                "panic: handle must not be nil"}
              /\ UNCHANGED routerVars ]_vars

C8_Witness ==
    /\ last.op = "Handle"
    /\ last.err = "panic: rank must be > 0"
    /\ \E r \in DOMAIN trees : trees[r] # {}
    /\ rankIndexList # <<>>
    /\ pool # {}

Panicked == {id \in DOMAIN tasks : tasks[id].st = "panicked"}

(***************************************************************************)
(* C9 as stated.  When PanicHandler is set and a launched handler has      *)
(* panicked, PanicHandler was called with the message of that handler and  *)
(* the value it panicked with.                                             *)
(***************************************************************************)
C9_PanicContained ==
    PanicHandler =>
        \A id \in Panicked :
            \E k \in DOMAIN recovered :
                recovered[k] = [msg |-> tasks[id].msg, rcv |-> PanicValue]

(***************************************************************************)
(* C10 as stated.  When PanicHandler is not set and a launched handler has *)
(* panicked, the process is alive: calls that are running or arrive later  *)
(* can still complete.                                                     *)
(***************************************************************************)
C10_OthersStillComplete ==
    (~PanicHandler /\ Panicked # {}) => ~crashed

(***************************************************************************)
(* C10 amended.  When PanicHandler is not set, the step in which a         *)
(* launched handler panics changes neither the result of the ServeNATS     *)
(* call that launched it nor any field of the router, calls no recovery    *)
(* function, and ends the process: no step of any call or goroutine        *)
(* follows it.                                                             *)
(***************************************************************************)
C10_UncaughtPanicEndsProcess ==
    [][ /\ ~crashed
        /\ (~PanicHandler /\ Panicked' # Panicked) =>
              /\ last' = last
              /\ UNCHANGED routerVars
              /\ recovered' = recovered
              /\ crashed' ]_vars

C10_Witness ==
    /\ ~PanicHandler
    /\ crashed
    /\ last.op \in ServeOps
    /\ last.err = "nil"
    /\ \E id \in Panicked : id[1] = ndisp
    /\ \E id \in DOMAIN tasks : tasks[id].st = "running"


\* the stored handler was registered after the first ServeNATS call
Late(handle) == handle.h >= LateBase

(***************************************************************************)
(* C11 as stated.  No goroutine ever runs a handler that was registered    *)
(* after the first ServeNATS call, and after a Lookup that resolves its    *)
(* subject in a rank, the handler returned is the one the trie of that     *)
(* rank holds, late or not.                                                *)
(***************************************************************************)
C11_LateNeverMatched ==
    /\ \A id \in DOMAIN tasks : ~Late(tasks[id].handle)
    /\ (last.op = "Lookup" /\ last.err = "nil" /\ last.res.handle # NilHandle) =>
          \E r \in DOMAIN trees : \E q \in trees[r] : q.handle = last.res.handle

\* the ranks that have a trie, in ascending order
AscendingRanks ==
    CHOOSE s \in MapOrders(trees) : \A i, j \in DOMAIN s : i < j => s[i] < s[j]

(***************************************************************************)
(* C12  Open to serving.  The step of the first ServeNATS call sets        *)
(* rankIndexList to the ranks that have a trie at that moment, ascending,  *)
(* and sets initialized; no other step sets initialized; and once it is    *)
(* set, no step of Handle, Lookup, allowed, ServeNATS or a goroutine       *)
(* changes rankIndexList or clears initialized.                            *)
(***************************************************************************)
C12_CacheFrozen ==
    [][ /\ initialized => (initialized' /\ rankIndexList' = rankIndexList)
        /\ (~initialized /\ ndisp' # ndisp) =>
              /\ initialized'
              /\ rankIndexList' = AscendingRanks
        /\ (~initialized /\ ndisp' = ndisp) =>
              /\ ~initialized'
              /\ rankIndexList' = rankIndexList ]_vars

C12_Witness ==
    /\ initialized
    /\ rankIndexList = <<1>>
    /\ DOMAIN trees = {1, 2}
    /\ trees[2] # {}
    /\ ndisp = 2
    /\ last.op \in QueryOps

(***************************************************************************)
(* C13: ServeNATS and ServeNATSWithPayload return without waiting for the  *)
(* handler.                                                                *)
(***************************************************************************)
\* the enabling condition of Serve, its conjuncts without primed variables: the
\* process lives, calls remain, the rank list can be had and the loop over it
\* has an outcome.  The goroutines (tasks) do not occur in it.
ServeEnabled(msg) ==
    /\ ~crashed
    /\ ndisp < MaxDispatch
    /\ \E order \in MapOrders(trees) : Probe(getRankList(order), msg, pool, bufs) # {}

\* C13: a dispatch call returns in the step that launches its goroutine, with
\* the handler not yet started, and no step of a goroutine is needed before
\* the next call: while the process lives and calls remain, every dispatch
\* call can be made and returns whatever the state of the goroutines launched
\* before, so a handler that never completes blocks neither its own call nor
\* a later one
C13_ReturnsWithoutWaiting ==
    /\ [][ \A id \in DOMAIN tasks' \ DOMAIN tasks :
              /\ tasks'[id].st = "launched"
              /\ last'.op \in ServeOps /\ last'.err = "nil" /\ ndisp' = id[1] ]_vars
    /\ [](\A msg \in Subjects :
             (~crashed /\ ndisp < MaxDispatch) => ServeEnabled(msg))

\* the second call has returned, with its own goroutine launched, while the
\* handler of the first call has started and not completed
C13_Witness ==
    /\ Served /\ last.err = "nil" /\ ndisp = 2
    /\ <<1, 1>> \in DOMAIN tasks /\ tasks[<<1, 1>>].st = "running"
    /\ <<2, 1>> \in DOMAIN tasks /\ tasks[<<2, 1>>].st = "launched"

(***************************************************************************)
(* C14: the pattern translator.                                            *)
(***************************************************************************)
RECURSIVE Split(_)
\* the tokens of a pattern: the pieces between its dots
Split(path) ==
    IF \A i \in DOMAIN path : path[i] # "."
    THEN <<path>>
    ELSE LET d == CHOOSE i \in DOMAIN path :
                     path[i] = "." /\ \A j \in 1..(i - 1) : path[j] # "."
         IN <<SubSeq(path, 1, d - 1)>> \o Split(Tail0(path, d))

\* what the claim describes: the i-th wildcard token from the left becomes
\* ":p<i>", a final token ">" behind a dot becomes "*>", the rest is kept
Translated(ts) ==
    DotJoin([i \in DOMAIN ts |->
                IF ts[i] = <<"*">>
                THEN <<":", "p">> \o Itoa(Cardinality({j \in 1..i : ts[j] = <<"*">>}))
                ELSE IF i = Len(ts) /\ i > 1 /\ ts[i] = <<">">> THEN <<"*", ">">>
                ELSE ts[i]])

\* C14 as stated: for every pattern with k wildcard tokens the result has the
\* placeholders p1..pk in their places, left to right, and a trailing ".>"
\* has become ".*>"
C14_EveryWildcardNamed ==
    last.op = "fromNatsPath" => last.res.result = Translated(Split(last.res.path))

(***************************************************************************)
(* C15..C17: the allowed-ranks query.                                      *)
(***************************************************************************)
\* the call of allowed that returned last
Asked(path, reqRank) ==
    last.op = "allowed" /\ last.res.path = path /\ last.res.reqRank = reqRank

\* the ranks of S, each once, from the lowest to the highest
Ascending(S) ==
    CHOOSE s \in [1..Cardinality(S) -> S] :
        /\ \A r \in S : \E i \in DOMAIN s : s[i] = r
        /\ \A i, j \in DOMAIN s : i < j => s[i] < s[j]

RECURSIVE Listed(_)
\* a list of ranks as decimal numbers with ", " between them
Listed(s) ==
    IF s = <<>> THEN <<>>
    ELSE Itoa(Head(s)) \o (IF Len(s) > 1 THEN <<",", " ">> ELSE <<>>) \o Listed(Tail(s))

\* C15: after any sequence of Handle calls, allowed("*", 0) returns the ranks
\* that have a trie, each once, ascending, joined by ", ", and "" when there
\* is none
C15_AllRanksAscending ==
    Asked(<<"*">>, 0) => last.res.allow = Listed(Ascending(DOMAIN trees))

\* four ranks are registered and the answer is "1, 2, 3, 4"
C15_Witness ==
    /\ Asked(<<"*">>, 0)
    /\ DOMAIN trees = {1, 2, 3, 4}
    /\ last.res.allow = <<"1", ",", " ", "2", ",", " ", "3", ",", " ", "4">>

\* C16: allowed("*", r) with r # 0 returns the cached string, and that
\* string is what allowed("*", 0) computes in the same state, whatever the
\* order in which the map is visited
C16_CacheCoherent ==
    \A r \in AllowedRanksInputs \ {0} :
        Asked(<<"*">>, r) =>
            /\ last.res.allow = globalAllowed
            /\ \A order \in MapOrders(trees) :
                   last.res.allow = allowedIn(trees, globalAllowed, order, <<"*">>, 0)

\* the cached list of two ranks is returned to rank 1
C16_Witness ==
    /\ Asked(<<"*">>, 1)
    /\ DOMAIN trees = {1, 3}
    /\ last.res.allow = <<"1", ",", " ", "3">>

\* C17: for a subject s and a requesting rank q, allowed(s, q) returns the
\* ranks other than q whose trie has a handle for s, ascending, joined by
\* ", "; q is never among them, and the result is "" when there is none
C17_OtherMatchingRanks ==
    \A s \in Subjects, q \in AllowedRanksInputs :
        Asked(s, q) =>
            last.res.allow =
                Listed(Ascending({r \in DOMAIN trees \ {q} :
                                     getValue(trees[r], s).handle # NilHandle}))

\* ranks 1, 2 and 3 match the subject, rank 2 asks and gets "1, 3"
C17_Witness ==
    /\ Asked(SubLong, 2)
    /\ \A r \in {1, 2, 3} :
           r \in DOMAIN trees /\ getValue(trees[r], SubLong).handle # NilHandle
    /\ last.res.allow = <<"1", ",", " ", "3">>

(***************************************************************************)
(* C18: Lookup.                                                            *)
(***************************************************************************)
\* what the trie of the rank alone gives for the subject
ProbeAlone(path, rank) ==
    IF rank \notin DOMAIN trees THEN Found(NilHandle, <<>>, FALSE)
    ELSE LET v == getValue(trees[rank], path) IN
         IF v.handle = NilHandle THEN Found(NilHandle, <<>>, FALSE)
         ELSE Found(v.handle, v.caps, FALSE)

\* C18 as stated: Lookup returns what the trie of the given rank alone gives,
\* whether or not a dispatch has happened, whatever the other ranks hold and
\* whenever the pattern was registered, and (nil, nil, false) for a rank
\* without a trie
C18_LookupProbesOneRank ==
    last.op = "Lookup" =>
        last = Answer("Lookup", "nil",
                      Looked(last.res.path, last.res.rank,
                             ProbeAlone(last.res.path, last.res.rank)))

(***************************************************************************)
(* C19: the matched-route-path parameter is fixed at registration.         *)
(***************************************************************************)
\* the function was registered while SaveMatchedRoutePath was set
RegisteredWhileSet(handle) == handle.h >= SavedBase

\* C19: the handler of every goroutine, once called, has received the
\* captured values of its pattern followed by ($matchedRoutePath, translated
\* pattern) if it was registered while SaveMatchedRoutePath was set, and the
\* captured values alone, without that parameter, if it was registered while
\* the flag was unset, whatever the flag is now or was when the subject was
\* dispatched; no handler fails to be called
C19_FixedAtRegistration ==
    \A id \in DOMAIN tasks :
        LET t == tasks[id]
            tpath == fromNatsPath(PatternOf(t.handle))
            caps == Captures(tpath, t.msg)
        IN /\ t.st # "panicked"
           /\ t.st = "running" =>
                 IF RegisteredWhileSet(t.handle)
                 THEN t.seen = Append(caps, Param(MatchedRoutePathParam, tpath))
                 ELSE /\ t.seen = caps
                      /\ \A i \in DOMAIN t.seen : t.seen[i].Key # MatchedRoutePathParam

\* the flag is unset now; the handler of the first call, registered while it
\* was set, has two captured values and the pattern behind them, and the
\* handler of the second call, registered while it was unset, has none
C19_Witness ==
    /\ ~SaveMatchedRoutePath
    /\ DOMAIN tasks = {<<1, 1>>, <<2, 1>>}
    /\ tasks[<<1, 1>>].st = "running" /\ tasks[<<2, 1>>].st = "running"
    /\ RegisteredWhileSet(tasks[<<1, 1>>].handle)
    /\ tasks[<<1, 1>>].seen =
          Append(ExampleMixed, Param(MatchedRoutePathParam, fromNatsPath(PatUserStarRest)))
    /\ ~RegisteredWhileSet(tasks[<<2, 1>>].handle)
    /\ tasks[<<2, 1>>].seen = <<>>

(***************************************************************************)
(* C20: pool reuse.                                                        *)
(***************************************************************************)
\* the route of the rank that holds the stored handle
RouteOf(t) == CHOOSE q \in trees[t.rank] : q.handle = t.handle

\* C20: whatever the pool and the buffers hold, every buffer that getParams
\* can hand out has length 0; so the buffer of a launched goroutine holds,
\* up to its length, exactly the values captured for its subject, and the
\* handler, once called, has seen those (and the matched route path behind
\* them if the handle was wrapped) and no entry of an earlier use
C20_CheckoutIsEmpty ==
    /\ \A g \in getParams(pool, bufs) : g.id # 0 => g.bufs[g.id].len = 0
    /\ \A id \in DOMAIN tasks :
          LET t == tasks[id]
              caps == Captures(RouteOf(t).path, t.msg)
          IN /\ (t.st = "launched" /\ t.buf # 0) =>
                    /\ bufs[t.buf].len = Len(caps)
                    /\ Deref(bufs[t.buf]) = caps
             /\ t.st = "running" => t.seen = SeenBy(t.handle, caps)

\* a handler has been called with one captured value in a buffer whose array
\* still holds the second entry of an earlier use
C20_Witness ==
    \E id \in DOMAIN tasks :
        LET t == tasks[id] IN
        /\ t.st = "running" /\ t.buf # 0 /\ ~t.handle.saved
        /\ Len(t.seen) = 1
        /\ bufs[t.buf].len = 1
        /\ Len(bufs[t.buf].arr) = 2

(***************************************************************************)
(* C21: checkout on an empty or uninitialized pool.                        *)
(***************************************************************************)
\* getParams has just returned
CheckedOut == last.op = "getParams"

\* New made a buffer of length 0 and of the capacity maxParams has now
FreshOfMaxParams ==
    /\ last.res.id # 0
    /\ last.res.fresh
    /\ last.res.buf = Buffer(maxParams)

\* C21 as stated: getParams on a pool whose free list is empty or whose New
\* is not installed returns a fresh buffer of length 0 and capacity maxParams
C21_FreshWhenEmptyOrUninitialized ==
    (CheckedOut /\ (last.res.empty \/ ~poolNew)) => FreshOfMaxParams

\* C21, amended: with New installed, getParams on an empty free list returns
\* a fresh buffer of length 0 and capacity maxParams; with New not installed
\* (and then the free list is empty) it returns nil
C21_FreshWhenEmptyAndInstalled ==
    (CheckedOut /\ last.res.empty) =>
        IF poolNew THEN FreshOfMaxParams ELSE last.res.id = 0

\* the free list was empty and the buffer made has the capacity 2 of the
\* pattern registered last, while the caller holds one of capacity 1 made
\* before that registration
C21_Witness ==
    /\ CheckedOut /\ last.res.empty /\ poolNew
    /\ maxParams = 2
    /\ last.res.buf = Buffer(2)
    /\ \E b \in DOMAIN bufs : bufs[b].cap = 1

(***************************************************************************)
(* C22: patterns that differ in a parameter name only.                     *)
(***************************************************************************)
RECURSIVE Shape(_)
\* a translated pattern with the names of its parameters left out
Shape(p) ==
    IF p = <<>> THEN <<>>
    ELSE IF Head(p) = ":" THEN <<":">> \o Shape(Tail0(p, 1 + TokenLen(Tail(p))))
    ELSE <<Head(p)>> \o Shape(Tail(p))

\* the two patterns are the same but for the name of a parameter
DiffersByName(p, q) == p # q /\ Shape(p) = Shape(q)

\* C22: a Handle call for a pattern that differs from a pattern of the same
\* rank in a parameter name only panics, stores nothing, and every subject
\* resolves in that rank as before: a subject the earlier pattern resolved
\* still gets its handler, with the values under the earlier names
C22_NameConflictFailsFast ==
    [][ \A k \in DOMAIN ConflictPatterns, rank \in ConflictRanks :
          LET path == ConflictPatterns[k] IN
          (/\ rank \in DOMAIN trees
           /\ \E q \in trees[rank] : DiffersByName(q.path, fromNatsPath(path))
           /\ Handle(path, rank, HandlerIn(ConflictPatterns, path, rank)))
          => /\ last'.err = "panic: addRoute"
             /\ UNCHANGED routerVars
             /\ \A msg \in Subjects :
                   /\ getValue(trees'[rank], msg) = getValue(trees[rank], msg)
                   /\ \A q \in trees[rank] :
                         (DiffersByName(q.path, fromNatsPath(path))
                          /\ getValue(trees[rank], msg).handle = q.handle)
                         => /\ getValue(trees'[rank], msg).handle = q.handle
                            /\ getValue(trees'[rank], msg).caps = Captures(q.path, msg)
      ]_vars

\* user.:name.> was registered, the Handle call for user.*.> in the same rank
\* has panicked, and the handler of user.:name.> runs with the parameter
\* called name
C22_Witness ==
    /\ nregs = 2
    /\ DOMAIN trees = {1}
    /\ \A q \in trees[1] : q.path = fromNatsPath(PatUserNamedRest)
    /\ \E id \in DOMAIN tasks :
          /\ tasks[id].st = "running"
          /\ tasks[id].handle.h = HandlerIn(ConflictPatterns, PatUserNamedRest, 1)
          /\ tasks[id].seen =
                <<Param(wName, wGopher),
                  Param(<<">">>, <<".">> \o wStar \o <<".">> \o wOk)>>

(***************************************************************************)
(* C23: Params.ByName.                                                     *)
(***************************************************************************)
\* the positions of ps whose key is name
Hits(ps, name) == {i \in DOMAIN ps : ps[i].Key = name}

\* C23: ByName returns the value at the first position whose key equals the
\* name, and the empty string when there is no such position
C23_FirstMatchOrEmpty ==
    last.op = "ByName" =>
        LET hits == Hits(last.res.ps, last.res.name) IN
        IF hits = {} THEN last.res.value = <<>>
        ELSE \E i \in hits :
                /\ \A j \in hits : i <= j
                /\ last.res.value = last.res.ps[i].Value

\* the key b occurs twice with different values and the first is returned
C23_Witness ==
    /\ last.op = "ByName"
    /\ last.res.ps = <<Param(<<"a">>, <<"1">>), Param(<<"b">>, <<"1">>),
                       Param(<<"b">>, <<"2">>)>>
    /\ last.res.name = <<"b">>
    /\ last.res.value = <<"1">>

(***************************************************************************)
(* C24: the result of a dispatch call and what the call did.               *)
(***************************************************************************)
\* C24 as stated: a dispatch call that returned nil has executed exactly one
\* go statement, and one that returned 404 NotFound none, also when the
\* call panicked and the deferred recv recovered it
C24_ResultAgrees ==
    Served =>
        /\ last.err = "nil" => last.launched = 1
        /\ last.err = notFound => last.launched = 0

(***************************************************************************)
(* C25: liveness of dispatch.                                              *)
(***************************************************************************)
\* the goroutine of call n is launched and its handler not yet called
Launched(n) ==
    /\ GoroutineOf(n) \in DOMAIN tasks
    /\ tasks[GoroutineOf(n)].st = "launched"

\* the handler of call n has been called with the parameters of the call
Started(n) ==
    /\ GoroutineOf(n) \in DOMAIN tasks
    /\ tasks[GoroutineOf(n)].st = "running"
    /\ tasks[GoroutineOf(n)].seen =
          SeenBy(tasks[GoroutineOf(n)].handle, tasks[GoroutineOf(n)].ps)

\* C25 as stated: under fair scheduling of the goroutines, the handler of
\* every dispatch call that returned nil is eventually called with the
\* parameters captured for the call
C25_EveryLaunchStarts ==
    \A n \in 1..MaxDispatch : Launched(n) ~> Started(n)

\* C25, amended (no PanicHandler): under fair scheduling of the goroutines,
\* after every dispatch call that returned nil either its handler is called
\* or the unrecovered panic of a handler ends the process; the goroutine
\* carries the message and the payload of its call (nil for ServeNATS) and
\* keeps them with the captured parameters until the handler is called; and
\* the step in which a handler returns puts its buffers into the pool
C25_StartsUnlessProcessEnds ==
    /\ \A n \in 1..MaxDispatch : Launched(n) ~> (Started(n) \/ crashed)
    /\ [][ /\ \A id \in DOMAIN tasks' \ DOMAIN tasks :
                /\ tasks'[id].msg = last'.msg
                /\ tasks'[id].payload =
                      (IF last'.op = "ServeNATS" THEN NoPayload ELSE "payload")
           /\ \A id \in DOMAIN tasks \cap DOMAIN tasks' :
                /\ tasks'[id].msg = tasks[id].msg
                /\ tasks'[id].payload = tasks[id].payload
                /\ tasks'[id].ps = tasks[id].ps
                /\ tasks'[id].handle = tasks[id].handle
           /\ \A id \in DOMAIN tasks \ DOMAIN tasks' :
                /\ tasks[id].st = "running"
                /\ tasks[id].buf # 0 => tasks[id].buf \in pool'
                /\ tasks[id].wbuf # 0 => tasks[id].wbuf \in pool' ]_vars

\* the handler of the second call, made with a payload, has been called
\* with two captured values, and the handler of the first call has returned
\* and its buffer is in the pool
C25_Witness ==
    /\ Started(2)
    /\ tasks[GoroutineOf(2)].payload = "payload"
    /\ Len(tasks[GoroutineOf(2)].ps) = 2
    /\ GoroutineOf(1) \notin DOMAIN tasks
    /\ last.launched = 1
    /\ pool # {}

\* the wildcard tokens of a translated pattern
WildcardTokens(path) == {i \in 1..Len(path) : path[i] \in {":", "*"}}

\* the buffer slots a completed registration needs: one per wildcard token,
\* and one more if SaveMatchedRoutePath was set when it was made
SlotsOf(q) ==
    Cardinality(WildcardTokens(q.path)) + (IF RegisteredWhileSet(q.handle) THEN 1 ELSE 0)

Completed == UNION {trees[rank] : rank \in DOMAIN trees}

\* C26: maxParams is the largest number of slots over the registrations that
\* completed (0 when there is none), the pool's New is installed exactly when
\* maxParams > 0, and no step decreases maxParams
C26_MaxParamsBookkeeping ==
    /\ [](/\ \A q \in Completed : SlotsOf(q) <= maxParams
          /\ maxParams > 0 => \E q \in Completed : SlotsOf(q) = maxParams
          /\ Completed = {} => maxParams = 0
          /\ poolNew <=> maxParams > 0)
    /\ [][maxParams' >= maxParams]_vars

\* the two-wildcard pattern was registered while the flag was unset, and a
\* second registration of it, made while the flag is set, panicked in
\* addRoute: maxParams is 2, not 3
C26_Witness ==
    /\ SaveMatchedRoutePath
    /\ nregs = 2
    /\ last.op = "Handle" /\ last.err = "panic: addRoute"
    /\ Cardinality(Completed) = 1
    /\ \A q \in Completed : q.path = fromNatsPath(PatUserStarRest)
    /\ maxParams = 2
    /\ poolNew

\* C27: a call of allowed, for every path and requesting rank, leaves the
\* tries, maxParams, globalAllowed, the rank list and its flag, and the pool
\* with its buffers as they were, and it neither launches nor ends a goroutine
C27_AllowedReadsOnly ==
    [][ (/\ last'.op = "allowed"
         /\ AllowedRanks(last'.res.path, last'.res.reqRank)) =>
            /\ UNCHANGED routerVars
            /\ UNCHANGED <<tasks, recovered, crashed>> ]_vars

\* allowed has answered for a subject that another rank serves, on a router
\* that has served a message and has a buffer in its pool
C27_Witness ==
    /\ last.op = "allowed"
    /\ last.res.path = SubLong
    /\ last.res.allow # ""
    /\ initialized
    /\ pool # {}

\* the calls that have returned
Returned == {c \in Callers : tasks[c].st = "returned"}

\* some rank holds a route for the subject
SomeRankMatches(msg) ==
    \E r \in DOMAIN trees : getValue(trees[r], msg).handle # NilHandle

\* C28 as stated: once the calls that ran at the same time have returned,
\* the rank list holds every registered rank exactly once in ascending
\* order; every call got a list with every registered rank, and none
\* returned 404 for a subject that some rank matches
C28_CacheComputedOnce ==
    /\ (Callers # {} /\ Returned = Callers) =>
          rankIndexList = Ascending(DOMAIN trees)
    /\ \A c \in Returned :
          /\ {tasks[c].list[i] : i \in DOMAIN tasks[c].list} = DOMAIN trees
          /\ tasks[c].err = notFound => ~SomeRankMatches(tasks[c].msg)

\* the goroutines that hold buffer b: the one launched with it, or the one
\* whose wrapper checked it out
HoldersOf(b) == {id \in DOMAIN tasks : b \in {tasks[id].buf, tasks[id].wbuf}}

C30_CapacityAtLeastMaxParams ==
    \A g \in getParams(pool, bufs) :
        g.id # 0 => g.bufs[g.id].cap >= maxParams

\* the step is a Handle call, with a valid rank and function, that panicked
\* in addRoute
FailedInAddRoute ==
    /\ nregs' = nregs + 1
    /\ last'.op = "Handle"
    /\ last'.err = "panic: addRoute"

\* C31 as stated: a Handle call that panics in addRoute leaves the map of
\* tries, the cached global list and the answer of allowed("*", 0) as they
\* were, and every rank of the map has at least one route
C31_FailedInsertKeepsRanks ==
    /\ [][ FailedInAddRoute =>
              /\ trees' = trees
              /\ globalAllowed' = globalAllowed
              /\ \A before \in MapOrders(trees), after \in MapOrders(trees') :
                    allowedIn(trees', globalAllowed', after, <<"*">>, 0)
                       = allowedIn(trees, globalAllowed, before, <<"*">>, 0) ]_vars
    /\ [](\A rank \in DOMAIN trees : trees[rank] # {})

=============================================================================
